---- MODULE Spec2Model ----
(***************************************************************************)
(* A model of metrohero-rs: the station directory (schemas.rs), the API    *)
(* gateway (client.rs), the error taxonomy (errors.rs) and the command     *)
(* line front end (cli.rs, format.rs).                                     *)
(*                                                                         *)
(* Strings are TLA+ strings; TLC treats them as sequences of characters,   *)
(* so Len, SubSeq and \o are the Rust str operations of the same meaning.  *)
(* A StationCode value is its position in the enum declaration; its string *)
(* form is produced by Display and parsed by from_str.                     *)
(***************************************************************************)
EXTENDS Integers, Sequences, FiniteSets, TLC

(***************************************************************************)
(* Bounds of the model.                                                    *)
(***************************************************************************)
\* how many of SampleStationOrder are used as gateway / plan station arguments
MaxSampleStations == 4
\* how many of SampleTrainIdOrder are used as train id arguments
MaxTrainIds == 3
\* how many threads use the station directory at the same time
MaxThreads == 2
\* how many directory calls each of these threads makes
MaxCallsPerThread == 2

(***************************************************************************)
(* Operations of str                                                       *)
(***************************************************************************)
UpperLetters == "ABCDEFGHIJKLMNOPQRSTUVWXYZ"
LowerLetters == "abcdefghijklmnopqrstuvwxyz"

\* the character ch with the letters of alphabet from replaced by those of to
MapChar(ch, from, to) ==
  IF \E i \in 1..Len(from) : SubSeq(from, i, i) = ch
    THEN LET i == CHOOSE j \in 1..Len(from) : SubSeq(from, j, j) = ch IN SubSeq(to, i, i)
    ELSE ch

RECURSIVE MapString(_, _, _)
MapString(s, from, to) ==
  IF Len(s) = 0 THEN s
  ELSE MapChar(SubSeq(s, 1, 1), from, to) \o MapString(SubSeq(s, 2, Len(s)), from, to)

ToLower(s) == MapString(s, UpperLetters, LowerLetters)
ToUpper(s) == MapString(s, LowerLetters, UpperLetters)

\* str::trim, for the space character
RECURSIVE Trim(_)
Trim(s) ==
  IF Len(s) > 0 /\ SubSeq(s, 1, 1) = " " THEN Trim(SubSeq(s, 2, Len(s)))
  ELSE IF Len(s) > 0 /\ SubSeq(s, Len(s), Len(s)) = " " THEN Trim(SubSeq(s, 1, Len(s) - 1))
  ELSE s

(***************************************************************************)
(* schemas.rs: enum StationCode                                            *)
(***************************************************************************)
\* the variants of enum StationCode in declaration order
StationCodeVariants ==
  <<
    "A01", "A02", "A03", "A04", "A05", "A06", "A07", "A08", "A09", "A10", "A11", "A12", "A13",
    "A14", "A15", "B01", "B02", "B03", "B04", "B05", "B06", "B07", "B08", "B09", "B10", "B11",
    "B35", "C01", "C02", "C03", "C04", "C05", "C06", "C07", "C08", "C09", "C10", "C11", "C12",
    "C13", "C14", "C15", "D01", "D02", "D03", "D04", "D05", "D06", "D07", "D08", "D09", "D10",
    "D11", "D12", "D13", "E01", "E02", "E03", "E04", "E05", "E06", "E07", "E08", "E09", "E10",
    "F01", "F02", "F03", "F04", "F05", "F06", "F07", "F08", "F09", "F10", "F11", "G01", "G02",
    "G03", "G04", "G05", "K01", "K02", "K03", "K04", "K05", "K06", "K07", "K08", "N01", "N02",
    "N03", "N04", "N06", "N07", "N08", "N09", "N10", "N11", "N12", "J02", "J03", "UNKNOWN"
  >>

\* a StationCode value: the position of its variant
StationCode == 1..Len(StationCodeVariants)

\* the literal StationCode::<name> of the source text
SC(name) == CHOOSE c \in StationCode : StationCodeVariants[c] = name

UNKNOWN == SC("UNKNOWN")

\* Result<T, E> and an unwinding panic
\* (val is meaningful under tag "Ok" only, err under "Err" and "Panic" only)
NoValue == <<>>
Ok(v) == [tag |-> "Ok", val |-> v, err |-> ""]
Err(e) == [tag |-> "Err", val |-> NoValue, err |-> e]
Panic(m) == [tag |-> "Panic", val |-> NoValue, err |-> m]

\* enum MetroHeroError
MetroHeroError ==
  {"HttpError", "ParseError", "InvalidRequest", "InvalidStation", "InvalidTrainId",
   "InvalidItinerary", "AuthenticationError", "RateLimited"}

\* impl Display for MetroHeroError
ErrorDisplay(e) ==
  CASE e = "HttpError" -> "Error while communicating with MetroHero API"
    [] e = "ParseError" -> "Error while parsing data from MetroHero API"
    [] e = "InvalidRequest" -> "Request to MetroHero API was invalid"
    [] e = "InvalidStation" -> "Provided station code or name is invalid"
    [] e = "InvalidItinerary" -> "Provided itinerary is invalid"
    [] e = "AuthenticationError" -> "Provided MetroHero API key is invalid"
    [] e = "RateLimited" -> "Too many requests, limit is: 10/s and 50k/24hr"
    [] e = "InvalidTrainId" -> "Provided Train ID is not valid"

\* variant of Display deriving it with serialize_all = "lowercase"
StationCodeDisplay_Lowercase(c) == ToLower(StationCodeVariants[c])

\* #[derive(Display)] (strum): the variant's name
StationCodeDisplay(c) == StationCodeVariants[c]

\* variant of from_str deriving EnumString with serialize_all = "lowercase"
StationCodeFromStr_Lowercase(s) ==
  IF \E c \in StationCode : ToLower(StationCodeVariants[c]) = s
    THEN Ok(CHOOSE c \in StationCode : ToLower(StationCodeVariants[c]) = s)
    ELSE Err("VariantNotFound")

\* #[derive(EnumString)] (strum): exact, case-sensitive match of a variant name
StationCodeFromStr(s) ==
  IF \E c \in StationCode : StationCodeVariants[c] = s
    THEN Ok(CHOOSE c \in StationCode : StationCodeVariants[c] = s)
    ELSE Err("VariantNotFound")

\* enum LineCode: the variants and the serde name of each
LineCodeVariants == <<"Silver", "Red", "Orange", "Blue", "Yellow", "Green", "NonRevenue">>
LineCodeRenames == <<"SV", "RD", "OR", "BL", "YL", "GR", "N/A">>

\* variant of the Deserialize of StationCode without #[serde(other)] on UNKNOWN
DeserializeStationCode_NoOther(s) ==
  IF \E c \in StationCode : StationCodeVariants[c] = s
    THEN Ok(CHOOSE c \in StationCode : StationCodeVariants[c] = s)
    ELSE Err("ParseError")

\* #[derive(Deserialize)] of StationCode on a JSON string: the variant of that name,
\* and UNKNOWN, the #[serde(other)] variant, for every other string
DeserializeStationCode(s) ==
  IF \E c \in StationCode : StationCodeVariants[c] = s
    THEN Ok(CHOOSE c \in StationCode : StationCodeVariants[c] = s)
    ELSE Ok(UNKNOWN)

\* #[derive(Deserialize)] of LineCode on a JSON string: the variant renamed to it, and
\* NonRevenue, the #[serde(other)] variant, for every other string
DeserializeLineCode(s) ==
  IF \E i \in DOMAIN LineCodeRenames : LineCodeRenames[i] = s
    THEN Ok(LineCodeVariants[CHOOSE i \in DOMAIN LineCodeRenames : LineCodeRenames[i] = s])
    ELSE Ok("NonRevenue")

(***************************************************************************)
(* schemas.rs: the two lazily built tables                                 *)
(***************************************************************************)
\* variant of InsertOf for a table filled with entry(k).or_insert(v): the first insert
\* of a key stays
InsertOf_FirstWins(entries, k) ==
  CHOOSE i \in DOMAIN entries :
    /\ entries[i][1] = k
    /\ \A j \in DOMAIN entries : entries[j][1] = k => j >= i

\* HashMap::insert executed for entries[1], entries[2], ... in order: the entry that
\* holds key k afterwards is the one of the last insert of k
InsertOf(entries, k) ==
  CHOOSE i \in DOMAIN entries :
    /\ entries[i][1] = k
    /\ \A j \in DOMAIN entries : entries[j][1] = k => j <= i

\* the HashMap left by HashMap::new() followed by the inserts of entries
HashMapOf(entries) ==
  [k \in {entries[i][1] : i \in DOMAIN entries} |-> entries[InsertOf(entries, k)][2]]

\* HashMap::get
HashMapGet(m, k) == IF k \in DOMAIN m THEN [some |-> TRUE, val |-> m[k]] ELSE [some |-> FALSE, val |-> NoValue]

\* the m.insert(code, name) statements of STATION_CODE_TO_NAME in source order
CODE_TO_NAME_INSERTS ==
  <<
    <<"A01", "Metro Center">>, <<"A02", "Farragut North">>, <<"A03", "Dupont Circle">>,
    <<"A04", "Woodley Park-Zoo/Adams Morgan">>, <<"A05", "Cleveland Park">>,
    <<"A06", "Van Ness-UDC">>, <<"A07", "Tenleytown-AU">>, <<"A08", "Friendship Heights">>,
    <<"A09", "Bethesda">>, <<"A10", "Medical Center">>, <<"A11", "Grosvenor-Strathmore">>,
    <<"A12", "White Flint">>, <<"A13", "Twinbrook">>, <<"A14", "Rockville">>,
    <<"A15", "Shady Grove">>, <<"B01", "Gallery Pl-Chinatown">>, <<"B02", "Judiciary Square">>,
    <<"B03", "Union Station">>, <<"B04", "Rhode Island Ave-Brentwood">>,
    <<"B05", "Brookland-CUA">>, <<"B06", "Fort Totten">>, <<"B07", "Takoma">>,
    <<"B08", "Silver Spring">>, <<"B09", "Forest Glen">>, <<"B10", "Wheaton">>,
    <<"B11", "Glenmont">>, <<"B35", "NoMa-Gallaudet U">>, <<"C01", "Metro Center">>,
    <<"C02", "McPherson Square">>, <<"C03", "Farragut West">>, <<"C04", "Foggy Bottom-GWU">>,
    <<"C05", "Rosslyn">>, <<"C06", "Arlington Cemetery">>, <<"C07", "Pentagon">>,
    <<"C08", "Pentagon City">>, <<"C09", "Crystal City">>,
    <<"C10", "Ronald Reagan Washington National Airport">>, <<"C11", "Potomac Yard">>,
    <<"C12", "Braddock Road">>, <<"C13", "King St-Old Town">>, <<"C14", "Eisenhower Avenue">>,
    <<"C15", "Huntington">>, <<"D01", "Federal Triangle">>, <<"D02", "Smithsonian">>,
    <<"D03", "L'Enfant Plaza">>, <<"D04", "Federal Center SW">>, <<"D05", "Capitol South">>,
    <<"D06", "Eastern Market">>, <<"D07", "Potomac Ave">>, <<"D08", "Stadium-Armory">>,
    <<"D09", "Minnesota Ave">>, <<"D10", "Deanwood">>, <<"D11", "Cheverly">>,
    <<"D12", "Landover">>, <<"D13", "New Carrollton">>,
    <<"E01", "Mt Vernon Sq 7th St-Convention Center">>, <<"E02", "Shaw-Howard U">>,
    <<"E03", "U Street/African-Amer Civil War Memorial/Cardozo">>,
    <<"E04", "Columbia Heights">>, <<"E05", "Georgia Ave-Petworth">>, <<"E06", "Fort Totten">>,
    <<"E07", "West Hyattsville">>, <<"E08", "Prince George's Plaza">>,
    <<"E09", "College Park-U of Md">>, <<"E10", "Greenbelt">>,
    <<"F01", "Gallery Pl-Chinatown">>, <<"F02", "Archives-Navy Memorial-Penn Quarter">>,
    <<"F03", "L'Enfant Plaza">>, <<"F04", "Waterfront">>, <<"F05", "Navy Yard-Ballpark">>,
    <<"F06", "Anacostia">>, <<"F07", "Congress Heights">>, <<"F08", "Southern Avenue">>,
    <<"F09", "Naylor Road">>, <<"F10", "Suitland">>, <<"F11", "Branch Ave">>,
    <<"G01", "Benning Road">>, <<"G02", "Capitol Heights">>,
    <<"G03", "Addison Road-Seat Pleasant">>, <<"G04", "Morgan Boulevard">>,
    <<"G05", "Largo Town Center">>, <<"J02", "Van Dorn Street">>,
    <<"J03", "Franconia-Springfield">>, <<"K01", "Court House">>, <<"K02", "Clarendon">>,
    <<"K03", "Virginia Square-GMU">>, <<"K04", "Ballston-MU">>, <<"K05", "East Falls Church">>,
    <<"K06", "West Falls Church-VT/UVA">>, <<"K07", "Dunn Loring-Merrifield">>,
    <<"K08", "Vienna/Fairfax-GMU">>, <<"N01", "McLean">>, <<"N02", "Tysons Corner">>,
    <<"N03", "Greensboro">>, <<"N04", "Spring Hill">>, <<"N06", "Wiehle-Reston East">>,
    <<"N07", "Reston Town Center">>, <<"N08", "Herndon">>, <<"N09", "Innovation Center">>,
    <<"N10", "Dulles International Airport">>, <<"N11", "Loudoun Gateway">>,
    <<"N12", "Ashburn">>, <<"UNKNOWN", "UNKNOWN">>
  >>

\* the m.insert(name, code) statements of STATION_NAME_TO_CODE in source order
NAME_TO_CODE_INSERTS ==
  <<
    <<"Metro Center", "A01">>, <<"Farragut North", "A02">>, <<"Dupont Circle", "A03">>,
    <<"Dupont", "A03">>, <<"Woodley Park-Zoo/Adams Morgan", "A04">>, <<"Adams Morgan", "A04">>,
    <<"Zoo", "A04">>, <<"Woodley Park", "A04">>, <<"Cleveland Park", "A05">>,
    <<"Van Ness-UDC", "A06">>, <<"Tenleytown-AU", "A07">>, <<"Friendship Heights", "A08">>,
    <<"Bethesda", "A09">>, <<"Medical Center", "A10">>, <<"Grosvenor-Strathmore", "A11">>,
    <<"White Flint", "A12">>, <<"Twinbrook", "A13">>, <<"Rockville", "A14">>,
    <<"Shady Grove", "A15">>, <<"Gallery Pl-Chinatown", "B01">>, <<"Chinatown", "B01">>,
    <<"Gallery Pl", "B01">>, <<"Judiciary Square", "B02">>, <<"Union Station", "B03">>,
    <<"Rhode Island Ave-Brentwood", "B04">>, <<"Brookland-CUA", "B05">>,
    <<"Fort Totten", "B06">>, <<"Takoma", "B07">>, <<"Silver Spring", "B08">>,
    <<"Forest Glen", "B09">>, <<"Wheaton", "B10">>, <<"Glenmont", "B11">>,
    <<"NoMa-Gallaudet U", "B35">>, <<"Metro Center", "C01">>, <<"McPherson Square", "C02">>,
    <<"Farragut West", "C03">>, <<"Foggy Bottom-GWU", "C04">>, <<"GWU", "C04">>,
    <<"Foggy Bottom", "C04">>, <<"Rosslyn", "C05">>, <<"Arlington Cemetery", "C06">>,
    <<"Pentagon", "C07">>, <<"Pentagon City", "C08">>, <<"Crystal City", "C09">>,
    <<"Ronald Reagan Washington National Airport", "C10">>, <<"DCA", "C10">>,
    <<"Potomac Yard", "C11">>, <<"Braddock Road", "C12">>, <<"King St-Old Town", "C13">>,
    <<"Eisenhower Avenue", "C14">>, <<"Huntington", "C15">>, <<"Federal Triangle", "D01">>,
    <<"Smithsonian", "D02">>, <<"L'Enfant Plaza", "D03">>, <<"Federal Center SW", "D04">>,
    <<"Capitol South", "D05">>, <<"Eastern Market", "D06">>, <<"Potomac Ave", "D07">>,
    <<"Stadium-Armory", "D08">>, <<"Minnesota Ave", "D09">>, <<"Deanwood", "D10">>,
    <<"Cheverly", "D11">>, <<"Landover", "D12">>, <<"New Carrollton", "D13">>,
    <<"Mt Vernon Sq 7th St-Convention Center", "E01">>, <<"Shaw-Howard U", "E02">>,
    <<"U Street/African-Amer Civil War Memorial/Cardozo", "E03">>,
    <<"African-Amer Civil War Memorial", "E03">>, <<"U Street", "E03">>, <<"Cardozo", "E03">>,
    <<"Columbia Heights", "E04">>, <<"Georgia Ave-Petworth", "E05">>, <<"Georgia Ave", "E05">>,
    <<"Petworth", "E05">>, <<"Fort Totten", "E06">>, <<"West Hyattsville", "E07">>,
    <<"Prince George's Plaza", "E08">>, <<"College Park-U of Md", "E09">>, <<"UMD", "E09">>,
    <<"College Park", "E09">>, <<"Greenbelt", "E10">>, <<"Chinatown", "F01">>,
    <<"Gallery Pl-Chinatown", "F01">>, <<"Gallery Pl", "F01">>,
    <<"Archives-Navy Memorial-Penn Quarter", "F02">>, <<"L'Enfant Plaza", "F03">>,
    <<"Waterfront", "F04">>, <<"Navy Yard-Ballpark", "F05">>, <<"Ballpark", "F05">>,
    <<"Navy Yard", "F05">>, <<"Anacostia", "F06">>, <<"Congress Heights", "F07">>,
    <<"Southern Avenue", "F08">>, <<"Naylor Road", "F09">>, <<"Suitland", "F10">>,
    <<"Branch Ave", "F11">>, <<"Benning Road", "G01">>, <<"Capitol Heights", "G02">>,
    <<"Addison Road-Seat Pleasant", "G03">>, <<"Morgan Boulevard", "G04">>,
    <<"Largo Town Center", "G05">>, <<"Van Dorn Street", "J02">>,
    <<"Franconia-Springfield", "J03">>, <<"Court House", "K01">>, <<"Clarendon", "K02">>,
    <<"Virginia Square-GMU", "K03">>, <<"GMU", "K03">>, <<"Virginia Square", "K03">>,
    <<"Ballston-MU", "K04">>, <<"MU", "K04">>, <<"Ballston", "K04">>,
    <<"East Falls Church", "K05">>, <<"West Falls Church-VT/UVA", "K06">>,
    <<"Dunn Loring-Merrifield", "K07">>, <<"Vienna/Fairfax-GMU", "K08">>, <<"Vienna", "K08">>,
    <<"McLean", "N01">>, <<"Tysons Corner", "N02">>, <<"Greensboro", "N03">>,
    <<"Spring Hill", "N04">>, <<"Wiehle-Reston East", "N06">>, <<"Wiehle", "N06">>,
    <<"Reston Town Center", "N07">>, <<"Reston", "N07">>, <<"Herndon", "N08">>,
    <<"Innovation Center", "N09">>, <<"Dulles International Airport", "N10">>,
    <<"IAD", "N10">>, <<"Loudoun Gateway", "N11">>, <<"Loudoun", "N11">>, <<"Ashburn", "N12">>,
    <<"UNKNOWN", "UNKNOWN">>
  >>


\* variant of the code-to-name inserts without the final insert of the sentinel
CODE_TO_NAME_ENTRIES_NoSentinel ==
  [i \in 1..(Len(CODE_TO_NAME_INSERTS) - 1) |->
     <<SC(CODE_TO_NAME_INSERTS[i][1]), CODE_TO_NAME_INSERTS[i][2]>>]

\* the (key, value) pairs of the insert statements, with the StationCode literals resolved
CODE_TO_NAME_ENTRIES ==
  [i \in DOMAIN CODE_TO_NAME_INSERTS |->
     <<SC(CODE_TO_NAME_INSERTS[i][1]), CODE_TO_NAME_INSERTS[i][2]>>]

\* variant of NAME_TO_CODE_ENTRIES without the inserts of "Metro Center"
NAME_TO_CODE_ENTRIES_NoMetroCenter ==
  LET kept == SelectSeq(NAME_TO_CODE_INSERTS, LAMBDA e : e[1] # "Metro Center")
  IN  [i \in DOMAIN kept |-> <<kept[i][1], SC(kept[i][2])>>]

\* variant of NAME_TO_CODE_ENTRIES in which every code is also inserted under its own
\* string form
NAME_TO_CODE_ENTRIES_CodesAsNames ==
  [i \in DOMAIN NAME_TO_CODE_INSERTS |->
     <<NAME_TO_CODE_INSERTS[i][1], SC(NAME_TO_CODE_INSERTS[i][2])>>]
  \o [c \in StationCode |-> <<StationCodeVariants[c], c>>]

NAME_TO_CODE_ENTRIES ==
  [i \in DOMAIN NAME_TO_CODE_INSERTS |->
     <<NAME_TO_CODE_INSERTS[i][1], SC(NAME_TO_CODE_INSERTS[i][2])>>]

\* the value of the lazy_static cells once initialised
STATION_CODE_TO_NAME == HashMapOf(CODE_TO_NAME_ENTRIES)

STATION_NAME_TO_CODE == HashMapOf(NAME_TO_CODE_ENTRIES)

\* variant of from_name that trims its input before the lookup
from_name_Trimmed(name) ==
  LET result == HashMapGet(STATION_NAME_TO_CODE, Trim(name))
  IN  IF result.some THEN Ok(result.val) ELSE Err("InvalidStation")

\* StationCode::from_name
from_name(name) ==
  LET result == HashMapGet(STATION_NAME_TO_CODE, name)
  IN  IF result.some THEN Ok(result.val) ELSE Err("InvalidStation")

\* StationCode::to_name: Option::unwrap panics on None
to_name(self) ==
  LET name == HashMapGet(STATION_CODE_TO_NAME, self)
  IN  IF name.some THEN Ok(name.val)
      ELSE Panic("called Option::unwrap() on a None value")

(***************************************************************************)
(* Strings handed to the directory: codes, table keys, their case and      *)
(* whitespace variants, and strings that are neither.                      *)
(***************************************************************************)
\* the string forms of all codes and the keys of the alias/name table
CodeStrings == {StationCodeDisplay(c) : c \in StationCode}
NameStrings == DOMAIN STATION_NAME_TO_CODE
KnownStrings == CodeStrings \cup NameStrings

\* case variants and whitespace-padded variants of the known strings
VariantStrings ==
  UNION {{ToLower(s), ToUpper(s), " " \o s, s \o " "} : s \in KnownStrings}

\* strings of other shapes
OtherStrings == {"", " ", "Z99", "K3", "K033", "Narnia", "GMU Station", "Unknown", "StationCode::K03"}

StationInputs == KnownStrings \cup VariantStrings \cup OtherStrings

\* the first n elements of a sequence, as a set
FirstOf(seq, n) == {seq[i] : i \in 1..(IF n < Len(seq) THEN n ELSE Len(seq))}

\* station arguments of the two-station operations, and of the plan command
SampleStationOrder == <<"UNKNOWN", "K03", "C02", "A01", "C01", "K04", "N12", "J03">>
SampleStations == {SC(s) : s \in FirstOf(SampleStationOrder, MaxSampleStations)}

SamplePlanInputOrder == <<"GMU", "K03", "McPherson Square", "gmu", "UNKNOWN", "C02", "Metro Center", "K03 ">>
SamplePlanInputs == FirstOf(SamplePlanInputOrder, MaxSampleStations)

\* train id arguments
SampleTrainIdOrder == <<"123", "", "tags", "7/8", "000">>
TrainIds == FirstOf(SampleTrainIdOrder, MaxTrainIds)

(***************************************************************************)
(* The upstream service: what one HTTP exchange can produce.               *)
(***************************************************************************)
\* JSON strings given to the Deserialize of LineCode
LineInputs ==
  {"SV", "RD", "OR", "BL", "YL", "GR", "N/A", "", "Silver", "sv", "NonRevenue", "XX"}

\* the station code and line codes of a TripInfo body, as the upstream wrote them
TripInfoCodes ==
  {[from_station_code |-> "K03", line_codes |-> <<"OR", "SV">>],
   [from_station_code |-> "Z99", line_codes |-> <<"XX", "BL">>]}

\* values of TrainPrediction.min given to eta_minutes
EtaTokens == {"ARR", "BRD", "0", "1", "3", "12", "45", "?", "2:30", "---", "", "DLY"}

\* the deserialization targets of the ten operations
VecTypes == {"Vec<Tweet>", "Vec<TrainPrediction>"}
MapTypes == {"TrainReports", "TrainPredictions", "StationReports"}
StructTypes == {"SystemMetricsResponse", "TripInfo", "TrainTags", "StationTags"}

\* raw ETA tokens of a prediction list (TrainPrediction.min)
PredictionLists == {<<"ARR", "3", "8">>, <<"BRD", "2", "5", "12">>, <<"7">>, <<"8", "ARR", "3">>}

\* response bodies: shape says which schema the JSON text has, value what it carries
Bodies ==
  {[shape |-> "not json", value |-> <<>>], [shape |-> "[]", value |-> <<>>],
   [shape |-> "{}", value |-> <<>>]}
  \cup {[shape |-> s, value |-> <<>>] :
          s \in {"SystemMetricsResponse", "Vec<Tweet>", "TrainReports", "TrainTags",
                 "TrainPredictions", "StationReports"}}
  \cup {[shape |-> "Vec<TrainPrediction>", value |-> l] : l \in PredictionLists}
  \cup {[shape |-> "Vec<TrainPrediction> but for one element", value |-> <<"3", "8">>]}
  \cup {[shape |-> "StationTags", value |-> <<n>>] : n \in {0, 2}}
  \cup {[shape |-> "TripInfo",
          value |-> [from_station_name |-> "Virginia Square-GMU",
                     to_station_name |-> "McPherson Square",
                     predicted_ride_time |-> "12", expected_ride_time |-> "10",
                     from_station_code |-> c.from_station_code,
                     line_codes |-> c.line_codes,
                     from_station_train_statuses |-> l, metro_alerts |-> a]] :
          l \in {<<"ARR", "3", "8">>}, a \in {<<>>, <<"Delays">>}, c \in TripInfoCodes}

EmptyBody == [shape |-> "not json", value |-> <<>>]

\* HTTP statuses the upstream answers with
Statuses == {200, 201, 204, 400, 401, 404, 429, 500, 503}

\* the outcome of one exchange: no response at all, or a status with a body
Upstream ==
  {[kind |-> "transport_error", status |-> 0, body |-> EmptyBody]}
  \cup {[kind |-> "response", status |-> 200, body |-> b] : b \in Bodies}
  \cup {[kind |-> "response", status |-> s, body |-> EmptyBody] : s \in Statuses \ {200}}

(***************************************************************************)
(* client.rs: MetroHeroClient                                              *)
(***************************************************************************)
\* MetroHeroClient::new
MetroHeroClientNew(api_key) ==
  [api_url_base |-> "https://dcmetrohero.com/api/v1",
   http_client |-> [apiKey |-> api_key, accept |-> "application/json", https_only |-> TRUE]]

\* Response::json::<T>(): whether the body deserializes into T
Deserializes(body, T) ==
  \/ body.shape = T
  \/ body.shape = "[]" /\ T \in VecTypes
  \/ body.shape = "{}" /\ T \in MapTypes

\* variant of VecVisitor that fills the vector from the back
RECURSIVE VecVisitor_Reversed(_)
VecVisitor_Reversed(elements) ==
  IF Len(elements) = 0 THEN <<>>
  ELSE VecVisitor_Reversed(Tail(elements)) \o <<Head(elements)>>

\* Deserialize for Vec<T>: each element of the JSON array is pushed in turn
RECURSIVE VecVisitor(_)
VecVisitor(elements) ==
  IF Len(elements) = 0 THEN <<>>
  ELSE <<Head(elements)>> \o VecVisitor(Tail(elements))

\* Response::json::<T>(): the model built from a body that deserializes into T
ResponseJson(body, T) ==
  [schema |-> T,
   value |-> IF T \in VecTypes THEN VecVisitor(body.value)
             ELSE IF T = "TripInfo"
               THEN [body.value EXCEPT
                       !.from_station_code = DeserializeStationCode(@).val,
                       !.line_codes = [i \in DOMAIN @ |-> DeserializeLineCode(@[i]).val]]
             ELSE body.value]

\* variant of send_request that unwraps the result of send() instead of using ?
send_request_UnwrapSend(self, T, request_path, upstream) ==
  LET request_url == self.api_url_base \o request_path
      result ==
        IF upstream.kind = "transport_error"
          THEN Panic("called Result::unwrap() on an Err value: reqwest::Error")
        ELSE CASE upstream.status = 200 ->
                    IF Deserializes(upstream.body, T)
                      THEN Ok(ResponseJson(upstream.body, T))
                      ELSE Err("ParseError")
               [] upstream.status = 400 -> Err("InvalidRequest")
               [] upstream.status = 401 -> Err("AuthenticationError")
               [] upstream.status = 503 -> Err("RateLimited")
               [] OTHER -> Panic("An unspecified status was received from th the server.")
  IN  [url |-> request_url, result |-> result]

\* variant of send_request whose last match arm maps the status instead of panicking
send_request_DefaultArm(self, T, request_path, upstream) ==
  LET request_url == self.api_url_base \o request_path
      result ==
        IF upstream.kind = "transport_error" THEN Err("HttpError")
        ELSE CASE upstream.status = 200 ->
                    IF Deserializes(upstream.body, T)
                      THEN Ok(ResponseJson(upstream.body, T))
                      ELSE Err("ParseError")
               [] upstream.status = 401 -> Err("AuthenticationError")
               [] upstream.status = 503 -> Err("RateLimited")
               [] OTHER -> Err("InvalidRequest")
  IN  [url |-> request_url, result |-> result]

\* MetroHeroClient::send_request::<T>: the GET it issues and what it returns
send_request(self, T, request_path, upstream) ==
  LET request_url == self.api_url_base \o request_path
      result ==
        IF upstream.kind = "transport_error" THEN Err("HttpError")
        ELSE CASE upstream.status = 200 ->
                    IF Deserializes(upstream.body, T)
                      THEN Ok(ResponseJson(upstream.body, T))
                      ELSE Err("ParseError")
               [] upstream.status = 400 -> Err("InvalidRequest")
               [] upstream.status = 401 -> Err("AuthenticationError")
               [] upstream.status = 503 -> Err("RateLimited")
               [] OTHER -> Panic("An unspecified status was received from th the server.")
  IN  [url |-> request_url, result |-> result]

\* variant of the remap that also rewrites ParseError
RemapInvalidRequest_ParseErrorToo(r, to) ==
  IF r.result.tag = "Err" /\ r.result.err \in {"InvalidRequest", "ParseError"}
    THEN [r EXCEPT !.result = Err(to)]
    ELSE r

\* variant of the remap whose error arm is Err(_) => Err(to)
RemapInvalidRequest_AnyError(r, to) ==
  IF r.result.tag = "Err" THEN [r EXCEPT !.result = Err(to)] ELSE r

\* match result { Err(InvalidRequest) => Err(to), other => other }
RemapInvalidRequest(r, to) ==
  IF r.result.tag = "Err" /\ r.result.err = "InvalidRequest"
    THEN [r EXCEPT !.result = Err(to)]
    ELSE r

get_system_metrics(self, upstream) ==
  send_request(self, "SystemMetricsResponse", "/metrorail/metrics", upstream)

\* variant of get_trip_info that formats the destination before the origin
get_trip_info_Swapped(self, from_station_code, to_station_code, upstream) ==
  LET api_path == "/metrorail/trips/" \o StationCodeDisplay(to_station_code) \o "/"
                    \o StationCodeDisplay(from_station_code)
  IN  RemapInvalidRequest(send_request(self, "TripInfo", api_path, upstream), "InvalidItinerary")

\* variant of get_trip_info that remaps to InvalidStation when an argument is UNKNOWN
get_trip_info_UnknownAsStation(self, from_station_code, to_station_code, upstream) ==
  LET api_path == "/metrorail/trips/" \o StationCodeDisplay(from_station_code) \o "/"
                    \o StationCodeDisplay(to_station_code)
  IN  RemapInvalidRequest(send_request(self, "TripInfo", api_path, upstream),
                          IF UNKNOWN \in {from_station_code, to_station_code}
                            THEN "InvalidStation"
                            ELSE "InvalidItinerary")

\* variant of get_trip_info that remaps as its comment reads: a station code was invalid
get_trip_info_AsStation(self, from_station_code, to_station_code, upstream) ==
  LET api_path == "/metrorail/trips/" \o StationCodeDisplay(from_station_code) \o "/"
                    \o StationCodeDisplay(to_station_code)
  IN  RemapInvalidRequest(send_request(self, "TripInfo", api_path, upstream), "InvalidStation")

get_trip_info(self, from_station_code, to_station_code, upstream) ==
  LET api_path == "/metrorail/trips/" \o StationCodeDisplay(from_station_code) \o "/"
                    \o StationCodeDisplay(to_station_code)
  IN  RemapInvalidRequest(send_request(self, "TripInfo", api_path, upstream), "InvalidItinerary")

get_tweets(self, upstream) ==
  send_request(self, "Vec<Tweet>", "/metrorail/tweets", upstream)

get_train_positions(self, upstream) ==
  send_request(self, "Vec<TrainPrediction>", "/metrorail/trains", upstream)

get_train_reports(self, upstream) ==
  send_request(self, "TrainReports", "/metrorail/trains/tags", upstream)

\* variant of get_train_report that returns the result of send_request as it is
get_train_report_NoRemap(self, train_id, upstream) ==
  send_request(self, "TrainTags", "/metrorail/trains/" \o train_id \o "/tags", upstream)

get_train_report(self, train_id, upstream) ==
  LET api_path == "/metrorail/trains/" \o train_id \o "/tags"
  IN  RemapInvalidRequest(send_request(self, "TrainTags", api_path, upstream), "InvalidTrainId")

get_train_predictions(self, upstream) ==
  send_request(self, "TrainPredictions", "/metrorail/stations/trains", upstream)

get_station_train_predictions(self, station_code, upstream) ==
  LET api_path == "/metrorail/stations/" \o StationCodeDisplay(station_code)
                    \o "/trains?includeScheduledPredictions=true"
  IN  RemapInvalidRequest(
        send_request(self, "Vec<TrainPrediction>", api_path, upstream), "InvalidStation")

\* variant of get_station_reports with the remap of the station-scoped operations
get_station_reports_Remap(self, upstream) ==
  RemapInvalidRequest(
    send_request(self, "StationReports", "/metrorail/stations/tags", upstream),
    "InvalidStation")

get_station_reports(self, upstream) ==
  send_request(self, "StationReports", "/metrorail/stations/tags", upstream)

\* variant of get_station_report that returns the result of send_request as it is
get_station_report_NoRemap(self, station_code, upstream) ==
  send_request(self, "StationTags",
               "/metrorail/stations/" \o StationCodeDisplay(station_code) \o "/tags", upstream)

get_station_report(self, station_code, upstream) ==
  LET api_path == "/metrorail/stations/" \o StationCodeDisplay(station_code) \o "/tags"
  IN  RemapInvalidRequest(send_request(self, "StationTags", api_path, upstream), "InvalidStation")

(***************************************************************************)
(* schemas.rs and format.rs: rendering                                     *)
(***************************************************************************)
\* str::contains
Contains(s, sub) ==
  \E i \in 1..(Len(s) - Len(sub) + 1) : SubSeq(s, i, i + Len(sub) - 1) = sub

\* variant of eta_minutes whose list of non-time values has no "BRD"
eta_minutes_NoBrd(min) ==
  LET non_time_min_values == {"ARR", "?", ":"}
      needs_min_invalidator == \A value \in non_time_min_values : ~Contains(min, value)
  IN  IF needs_min_invalidator THEN min \o "m" ELSE min

\* TrainPrediction::eta_minutes, on the raw ETA token self.min
eta_minutes(min) ==
  LET non_time_min_values == {"ARR", "BRD", "?", ":"}
      needs_min_invalidator == \A value \in non_time_min_values : ~Contains(min, value)
  IN  IF needs_min_invalidator THEN min \o "m" ELSE min

\* slice.join(sep)
RECURSIVE Join(_, _)
Join(strs, sep) ==
  IF Len(strs) = 0 THEN ""
  ELSE IF Len(strs) = 1 THEN strs[1]
  ELSE strs[1] \o sep \o Join(Tail(strs), sep)

\* variant of get_departures_table that adds a row for every departure
get_departures_table_AllRows(departures) ==
  <<"Line|Destination|ETA|Notes">>
    \o [i \in 1..Len(departures) |-> "ETA " \o eta_minutes(departures[i])]

\* get_departures_table: the header and one row for each of the first three departures
\* (of the four cells of a row the ETA cell is kept; a departure is its raw ETA token)
get_departures_table(departures) ==
  LET count_rows_to_render == IF Len(departures) >= 3 THEN 3 ELSE Len(departures)
  IN  <<"Line|Destination|ETA|Notes">>
        \o [i \in 1..count_rows_to_render |-> "ETA " \o eta_minutes(departures[i])]

\* get_warnings_table (the header; the rows are the counters, which the bodies do not carry)
get_warnings_table(station_tags) == <<"Report|Count">>

\* print_footer
print_footer == <<"Source: MetroHero API (https://www.dcmetrohero.com)">>

\* print_plan: the println! calls in order, each with the lines it writes
print_plan(trip_info) ==
  LET departure_times ==
        [i \in DOMAIN trip_info.from_station_train_statuses |->
           eta_minutes(trip_info.from_station_train_statuses[i])]
      shown == IF Len(departure_times) < 4 THEN Len(departure_times) ELSE 4
  IN  << <<trip_info.from_station_name \o " --> " \o trip_info.to_station_name>>,
         <<"Expected ride:    " \o trip_info.predicted_ride_time \o "m (normally "
             \o trip_info.expected_ride_time \o "m)">>,
         <<"Next train:       " \o Join(SubSeq(departure_times, 1, shown), ", ")>>,
         <<"Departures from " \o trip_info.from_station_name>>,
         get_departures_table(trip_info.from_station_train_statuses) >>
      \o (IF Len(trip_info.metro_alerts) > 0
            THEN << <<"WMATA alerts may impact your trip:">>,
                    <<"Date|Description">> \o trip_info.metro_alerts,
                    print_footer >>
            ELSE << >>)

\* print_departures, given the name to_name returned for the station
print_departures(departure_station, station_name, departures, station_tags) ==
  << <<"Departures for " \o station_name \o " (" \o StationCodeDisplay(departure_station) \o ")">>,
     get_departures_table(departures) >>
  \o (IF station_tags[1] > 0 THEN <<get_warnings_table(station_tags)>> ELSE << >>)
  \o <<print_footer>>

(***************************************************************************)
(* State                                                                   *)
(***************************************************************************)
VARIABLES
  client,    \* the MetroHeroClient of the process
  built,     \* the lazy_static cells that have been initialised
  last,      \* the latest library call: operation, arguments, upstream outcome, result,
             \* and the call that preceded it when the caller went on without a pause
  sent,      \* the URLs of the GETs issued by the latest library call
  cli,       \* the command line process: its position, arguments, output and exit status
  lazy,      \* the Once of each lazy_static cell: its state and who ran the initializer
  threads    \* the threads of a program using the station directory concurrently

vars == <<client, built, last, sent, cli, lazy, threads>>

NoUpstream == [kind |-> "none", status |-> 0, body |-> EmptyBody]
\* the call made just before the latest one on the same client, and what it returned
NoPrior == [op |-> "none", args |-> <<>>, result |-> Err("")]
NoCall ==
  [op |-> "none", args |-> <<>>, upstream |-> NoUpstream, result |-> Err(""),
   prior |-> NoPrior]

\* the command line process before it is started
CliIdle ==
  [pc |-> "idle", command |-> "none", inputs |-> <<>>, api_key |-> <<>>, env_key |-> <<>>,
   parsed |-> 0, stations |-> <<>>, via |-> <<>>, requests |-> <<>>, fetched |-> <<>>, stdout |-> <<>>, stderr |-> <<>>,
   exit |-> -1]

\* the lazy_static cells and the Once of each before the first access
Cells == {"STATION_CODE_TO_NAME", "STATION_NAME_TO_CODE"}
NoLazy == [c \in Cells |-> [state |-> "incomplete", inits |-> 0, by |-> 0]]

\* the threads before any of them has called into the directory
Threads == 1..MaxThreads
NoThreads ==
  [t \in Threads |->
     [pc |-> "idle", op |-> "none", args |-> <<>>, result |-> Err(""), calls |-> 0]]

\* a library user constructed a client; nothing has been called yet
InitLibrary ==
  /\ client = MetroHeroClientNew("YOUR_API_KEY")
  /\ built = {}
  /\ last = NoCall
  /\ sent = <<>>
  /\ cli = CliIdle
  /\ lazy = NoLazy
  /\ threads = NoThreads

(***************************************************************************)
(* Library calls: the station directory                                    *)
(***************************************************************************)
\* the caller is single threaded: a call starts when the previous one has returned
\* and its result has been consumed
Idle == last.op = "none" /\ cli.pc = "idle"

\* the caller drops the result of the latest call
DropResult ==
  /\ last.op # "none"
  /\ cli.pc = "idle"
  /\ last' = NoCall
  /\ sent' = <<>>
  /\ UNCHANGED <<client, built, cli>>
  /\ UNCHANGED <<lazy, threads>>

\* StationCode::from_str(s)
FromStr ==
  /\ Idle
  /\ \E s \in StationInputs :
       last' = [op |-> "from_str", args |-> <<s>>, upstream |-> NoUpstream,
                result |-> StationCodeFromStr(s), prior |-> NoPrior]
  /\ sent' = <<>>
  /\ UNCHANGED <<client, built, cli>>
  /\ UNCHANGED <<lazy, threads>>

\* StationCode::from_name(s); the first use initialises STATION_NAME_TO_CODE
FromName ==
  /\ Idle
  /\ \E s \in StationInputs :
       last' = [op |-> "from_name", args |-> <<s>>, upstream |-> NoUpstream,
                result |-> from_name(s), prior |-> NoPrior]
  /\ built' = built \cup {"STATION_NAME_TO_CODE"}
  /\ sent' = <<>>
  /\ UNCHANGED <<client, cli>>
  /\ UNCHANGED <<lazy, threads>>

\* c.to_name(); the first use initialises STATION_CODE_TO_NAME
ToName ==
  /\ Idle
  /\ \E c \in StationCode :
       last' = [op |-> "to_name", args |-> <<c>>, upstream |-> NoUpstream,
                result |-> to_name(c), prior |-> NoPrior]
  /\ built' = built \cup {"STATION_CODE_TO_NAME"}
  /\ sent' = <<>>
  /\ UNCHANGED <<client, cli>>
  /\ UNCHANGED <<lazy, threads>>

\* StationCode::from_name(&name) on the name that c.to_name() has just returned
FromNameOfToName ==
  /\ cli.pc = "idle"
  /\ last.op = "to_name"
  /\ last.result.tag = "Ok"
  /\ last' = [op |-> "from_name", args |-> <<last.result.val>>, upstream |-> NoUpstream,
              result |-> from_name(last.result.val),
              prior |-> [op |-> last.op, args |-> last.args, result |-> last.result]]
  /\ built' = built \cup {"STATION_NAME_TO_CODE"}
  /\ sent' = <<>>
  /\ UNCHANGED <<client, cli>>
  /\ UNCHANGED <<lazy, threads>>

\* prediction.eta_minutes() on a TrainPrediction whose min is the token
EtaMinutes ==
  /\ Idle
  /\ \E t \in EtaTokens :
       last' = [op |-> "eta_minutes", args |-> <<t>>, upstream |-> NoUpstream,
                result |-> Ok(eta_minutes(t)), prior |-> NoPrior]
  /\ sent' = <<>>
  /\ UNCHANGED <<client, built, cli>>
  /\ UNCHANGED <<lazy, threads>>

\* serde_json::from_str::<StationCode> on the JSON string s
DeserializeStation ==
  /\ Idle
  /\ \E s \in StationInputs :
       last' = [op |-> "deserialize_station_code", args |-> <<s>>, upstream |-> NoUpstream,
                result |-> DeserializeStationCode(s), prior |-> NoPrior]
  /\ sent' = <<>>
  /\ UNCHANGED <<client, built, cli, lazy, threads>>

\* serde_json::from_str::<LineCode> on the JSON string s
DeserializeLine ==
  /\ Idle
  /\ \E s \in LineInputs :
       last' = [op |-> "deserialize_line_code", args |-> <<s>>, upstream |-> NoUpstream,
                result |-> DeserializeLineCode(s), prior |-> NoPrior]
  /\ sent' = <<>>
  /\ UNCHANGED <<client, built, cli, lazy, threads>>

(***************************************************************************)
(* Library calls: the gateway                                              *)
(***************************************************************************)
\* the arguments with which the library caller repeats a call
Repeatable(op, args) ==
  IF op = "get_train_report" THEN TRUE ELSE \A i \in DOMAIN args : args[i] \in SampleStations

\* the caller is ready to make this call: nothing is pending, or it repeats the latest
\* call right after it returned
Ready(op, args) ==
  /\ cli.pc = "idle"
  /\ IF last.op = "none" THEN TRUE
     ELSE IF last.op = op THEN last.args = args /\ Repeatable(op, args)
     ELSE FALSE

\* variant of Called in which a rate limited or failed exchange is tried a second time
Called_Retry(op, args, upstream, r) ==
  /\ last' = [op |-> op, args |-> args, upstream |-> upstream, result |-> r.result,
              prior |-> [op |-> last.op, args |-> last.args, result |-> last.result]]
  /\ sent' = IF r.result.tag = "Err" /\ r.result.err \in {"RateLimited", "HttpError"}
               THEN <<r.url, r.url>>
               ELSE <<r.url>>
  /\ UNCHANGED <<client, built>>

\* variant of Called in which the client answers a repeated call from the value it
\* returned before
Called_Cached(op, args, upstream, r) ==
  /\ last' = [op |-> op, args |-> args, upstream |-> upstream,
              result |-> IF last.op = op /\ last.args = args /\ last.result.tag = "Ok"
                           THEN last.result
                           ELSE r.result,
              prior |-> [op |-> last.op, args |-> last.args, result |-> last.result]]
  /\ sent' = <<r.url>>
  /\ UNCHANGED <<client, built>>

\* the effect of a gateway call that issued the GET of r and returned its result
Called(op, args, upstream, r) ==
  /\ last' = [op |-> op, args |-> args, upstream |-> upstream, result |-> r.result,
              prior |-> [op |-> last.op, args |-> last.args, result |-> last.result]]
  /\ sent' = <<r.url>>
  /\ UNCHANGED <<client, built>>

GetSystemMetrics ==
  /\ Ready("get_system_metrics", <<>>)
  /\ \E u \in Upstream : Called("get_system_metrics", <<>>, u, get_system_metrics(client, u))
  /\ UNCHANGED cli
  /\ UNCHANGED <<lazy, threads>>

GetTripInfo ==
  /\ cli.pc = "idle"
  /\ \E from \in SampleStations, to \in SampleStations :
       /\ Ready("get_trip_info", <<from, to>>)
       /\ \E u \in Upstream :
            Called("get_trip_info", <<from, to>>, u, get_trip_info(client, from, to, u))
  /\ UNCHANGED cli
  /\ UNCHANGED <<lazy, threads>>

GetTweets ==
  /\ Ready("get_tweets", <<>>)
  /\ \E u \in Upstream : Called("get_tweets", <<>>, u, get_tweets(client, u))
  /\ UNCHANGED cli
  /\ UNCHANGED <<lazy, threads>>

GetTrainPositions ==
  /\ Ready("get_train_positions", <<>>)
  /\ \E u \in Upstream : Called("get_train_positions", <<>>, u, get_train_positions(client, u))
  /\ UNCHANGED cli
  /\ UNCHANGED <<lazy, threads>>

GetTrainReports ==
  /\ Ready("get_train_reports", <<>>)
  /\ \E u \in Upstream : Called("get_train_reports", <<>>, u, get_train_reports(client, u))
  /\ UNCHANGED cli
  /\ UNCHANGED <<lazy, threads>>

GetTrainReport ==
  /\ cli.pc = "idle"
  /\ \E id \in TrainIds :
       /\ Ready("get_train_report", <<id>>)
       /\ \E u \in Upstream :
            Called("get_train_report", <<id>>, u, get_train_report(client, id, u))
  /\ UNCHANGED cli
  /\ UNCHANGED <<lazy, threads>>

GetTrainPredictions ==
  /\ Ready("get_train_predictions", <<>>)
  /\ \E u \in Upstream :
       Called("get_train_predictions", <<>>, u, get_train_predictions(client, u))
  /\ UNCHANGED cli
  /\ UNCHANGED <<lazy, threads>>

GetStationTrainPredictions ==
  /\ cli.pc = "idle"
  /\ \E c \in StationCode :
       /\ Ready("get_station_train_predictions", <<c>>)
       /\ \E u \in Upstream :
            Called("get_station_train_predictions", <<c>>, u,
                   get_station_train_predictions(client, c, u))
  /\ UNCHANGED cli
  /\ UNCHANGED <<lazy, threads>>

GetStationReports ==
  /\ Ready("get_station_reports", <<>>)
  /\ \E u \in Upstream : Called("get_station_reports", <<>>, u, get_station_reports(client, u))
  /\ UNCHANGED cli
  /\ UNCHANGED <<lazy, threads>>

GetStationReport ==
  /\ cli.pc = "idle"
  /\ \E c \in StationCode :
       /\ Ready("get_station_report", <<c>>)
       /\ \E u \in Upstream :
            Called("get_station_report", <<c>>, u, get_station_report(client, c, u))
  /\ UNCHANGED cli
  /\ UNCHANGED <<lazy, threads>>

(***************************************************************************)
(* cli.rs: the command line process                                        *)
(***************************************************************************)
\* a MetroHeroClient that has not been constructed yet
NoClient ==
  [api_url_base |-> "", http_client |-> [apiKey |-> "", accept |-> "", https_only |-> FALSE]]

\* Option<String>: <<>> is None, <<s>> is Some(s)
KeyConfigs ==
  {[api_key |-> <<"FLAGKEY">>, env_key |-> <<>>], [api_key |-> <<>>, env_key |-> <<"ENVKEY">>],
   [api_key |-> <<>>, env_key |-> <<>>]}

CommandLines ==
  {[command |-> "departures", inputs |-> <<s>>] : s \in StationInputs}
  \cup {[command |-> "plan", inputs |-> <<a, b>>] : a \in SamplePlanInputs, b \in SamplePlanInputs}
  \cup {[command |-> "stations", inputs |-> <<>>]}

\* the process has been started with a parsed command line
InitCli ==
  /\ client = NoClient
  /\ built = {}
  /\ last = NoCall
  /\ sent = <<>>
  /\ \E c \in CommandLines, k \in KeyConfigs :
       cli = [CliIdle EXCEPT !.pc = "main", !.command = c.command, !.inputs = c.inputs,
                             !.api_key = k.api_key, !.env_key = k.env_key]
  /\ lazy = NoLazy
  /\ threads = NoThreads

\* process::exit(status) after eprintln!(message)
CliExit(c, message, status) ==
  [c EXCEPT !.pc = "exited", !.stderr = @ \o <<message>>, !.exit = status]

\* an unwinding panic reaches main: the message goes to stderr, the status is 101
CliPanic(c, message) ==
  [c EXCEPT !.pc = "exited", !.stderr = @ \o <<"thread 'main' panicked: " \o message>>,
            !.exit = 101]

\* main returns
CliReturn(c) == [c EXCEPT !.pc = "exited", !.exit = 0]

\* variant of parse_user_station_input that goes on with UNKNOWN when both attempts fail
parse_user_station_input_DefaultUnknown(input) ==
  LET code_attempt == StationCodeFromStr(input)
      name_attempt == from_name(input)
  IN  IF code_attempt.tag = "Ok"
        THEN [tag |-> "return", code |-> code_attempt.val, via |-> "code", status |-> 0]
      ELSE IF name_attempt.tag = "Ok"
        THEN [tag |-> "return", code |-> name_attempt.val, via |-> "name", status |-> 0]
      ELSE [tag |-> "return", code |-> UNKNOWN, via |-> "none", status |-> 0]

\* variant of parse_user_station_input that tests the name attempt first
parse_user_station_input_NameFirst(input) ==
  LET code_attempt == StationCodeFromStr(input)
      name_attempt == from_name(input)
  IN  IF name_attempt.tag = "Ok"
        THEN [tag |-> "return", code |-> name_attempt.val, via |-> "name", status |-> 0]
      ELSE IF code_attempt.tag = "Ok"
        THEN [tag |-> "return", code |-> code_attempt.val, via |-> "code", status |-> 0]
      ELSE [tag |-> "exit", code |-> 0, via |-> "none", status |-> 1]

\* parse_user_station_input: the code attempt is preferred to the name attempt
parse_user_station_input(input) ==
  LET code_attempt == StationCodeFromStr(input)
      name_attempt == from_name(input)
  IN  IF code_attempt.tag = "Ok"
        THEN [tag |-> "return", code |-> code_attempt.val, via |-> "code", status |-> 0]
      ELSE IF name_attempt.tag = "Ok"
        THEN [tag |-> "return", code |-> name_attempt.val, via |-> "name", status |-> 0]
      ELSE [tag |-> "exit", code |-> 0, via |-> "none", status |-> 1]

\* run_cli: the client is built from --api-key, else from METROHERO_API_KEY
CliNewClient ==
  /\ cli.pc = "main"
  /\ IF Len(cli.api_key) > 0 \/ Len(cli.env_key) > 0
       THEN /\ client' = MetroHeroClientNew(
                           IF Len(cli.api_key) > 0 THEN cli.api_key[1] ELSE cli.env_key[1])
            /\ cli' = [cli EXCEPT !.pc = IF cli.command = "stations" THEN "print_stations"
                                         ELSE "resolve"]
       ELSE /\ cli' = CliPanic(cli, "Environment variable METROHERO_API_KEY is missing")
            /\ UNCHANGED client
  /\ UNCHANGED <<built, last, sent>>
  /\ UNCHANGED <<lazy, threads>>

\* run_cli: the next station argument goes through parse_user_station_input
CliParseStation ==
  /\ cli.pc = "resolve"
  /\ LET input == cli.inputs[Len(cli.stations) + 1]
         r == parse_user_station_input(input)
     IN  IF r.tag = "return"
           THEN cli' = [cli EXCEPT
                          !.parsed = @ + 1,
                          !.stations = @ \o <<r.code>>,
                          !.via = @ \o <<r.via>>,
                          !.pc = IF Len(cli.stations) + 1 < Len(cli.inputs) THEN "resolve"
                                 ELSE IF cli.command = "plan" THEN "fetch_trip"
                                 ELSE "fetch_predictions"]
           ELSE cli' = CliExit([cli EXCEPT !.parsed = @ + 1],
                               ErrorDisplay("InvalidStation"), r.status)
  /\ built' = built \cup {"STATION_NAME_TO_CODE"}
  /\ UNCHANGED <<client, last, sent>>
  /\ UNCHANGED <<lazy, threads>>

\* variant of CliFetchPredictions that goes on to the station report with an empty
\* list when the fetch returned an error
CliFetchPredictions_ContinueOnError ==
  /\ cli.pc = "fetch_predictions"
  /\ \E u \in Upstream :
       LET r == get_station_train_predictions(client, cli.stations[1], u)
           c == [cli EXCEPT !.requests = @ \o <<r.url>>]
       IN  /\ Called("get_station_train_predictions", <<cli.stations[1]>>, u, r)
           /\ cli' = CASE r.result.tag = "Ok" ->
                            [c EXCEPT !.pc = "fetch_report", !.fetched = @ \o <<r.result.val>>]
                       [] r.result.tag = "Err" ->
                            [c EXCEPT !.pc = "fetch_report",
                                      !.fetched = @ \o <<[schema |-> "Vec<TrainPrediction>",
                                                          value |-> <<>>]>>]
                       [] r.result.tag = "Panic" -> CliPanic(c, r.result.err)
  /\ UNCHANGED <<lazy, threads>>

\* variant of CliFetchPredictions that prints the departures table as soon as the
\* predictions are there, before the station report is fetched
CliFetchPredictions_PrintEarly ==
  /\ cli.pc = "fetch_predictions"
  /\ \E u \in Upstream :
       LET r == get_station_train_predictions(client, cli.stations[1], u)
           c == [cli EXCEPT !.requests = @ \o <<r.url>>]
       IN  /\ Called("get_station_train_predictions", <<cli.stations[1]>>, u, r)
           /\ cli' = CASE r.result.tag = "Ok" ->
                            [c EXCEPT !.pc = "fetch_report", !.fetched = @ \o <<r.result.val>>,
                                      !.stdout = @ \o <<get_departures_table(r.result.val.value)>>]
                       [] r.result.tag = "Err" -> CliExit(c, ErrorDisplay(r.result.err), 1)
                       [] r.result.tag = "Panic" -> CliPanic(c, r.result.err)
  /\ UNCHANGED <<lazy, threads>>

\* Commands::Departures: client.get_station_train_predictions, errors printed
CliFetchPredictions ==
  /\ cli.pc = "fetch_predictions"
  /\ \E u \in Upstream :
       LET r == get_station_train_predictions(client, cli.stations[1], u)
           c == [cli EXCEPT !.requests = @ \o <<r.url>>]
       IN  /\ Called("get_station_train_predictions", <<cli.stations[1]>>, u, r)
           /\ cli' = CASE r.result.tag = "Ok" ->
                            [c EXCEPT !.pc = "fetch_report", !.fetched = @ \o <<r.result.val>>]
                       [] r.result.tag = "Err" -> CliExit(c, ErrorDisplay(r.result.err), 1)
                       [] r.result.tag = "Panic" -> CliPanic(c, r.result.err)
  /\ UNCHANGED <<lazy, threads>>

\* Commands::Departures: client.get_station_report(..).unwrap()
CliFetchReport ==
  /\ cli.pc = "fetch_report"
  /\ \E u \in Upstream :
       LET r == get_station_report(client, cli.stations[1], u)
           c == [cli EXCEPT !.requests = @ \o <<r.url>>]
       IN  /\ Called("get_station_report", <<cli.stations[1]>>, u, r)
           /\ cli' = CASE r.result.tag = "Ok" ->
                            [c EXCEPT !.pc = "print_departures", !.fetched = @ \o <<r.result.val>>]
                       [] r.result.tag = "Err" ->
                            CliPanic(c, "called Result::unwrap() on an Err value: " \o r.result.err)
                       [] r.result.tag = "Panic" -> CliPanic(c, r.result.err)
  /\ UNCHANGED <<lazy, threads>>

\* Commands::Departures: format::print_departures
CliPrintDepartures ==
  /\ cli.pc = "print_departures"
  /\ LET name == to_name(cli.stations[1])
     IN  cli' = IF name.tag = "Ok"
                  THEN CliReturn([cli EXCEPT !.stdout =
                         @ \o print_departures(cli.stations[1], name.val,
                                               cli.fetched[1].value, cli.fetched[2].value)])
                  ELSE CliPanic(cli, name.err)
  /\ built' = built \cup {"STATION_CODE_TO_NAME"}
  /\ UNCHANGED <<client, last, sent>>
  /\ UNCHANGED <<lazy, threads>>

\* Commands::Plan: client.get_trip_info, then print_plan or the error
CliFetchTrip ==
  /\ cli.pc = "fetch_trip"
  /\ \E u \in Upstream :
       LET r == get_trip_info(client, cli.stations[1], cli.stations[2], u)
           c == [cli EXCEPT !.requests = @ \o <<r.url>>]
       IN  /\ Called("get_trip_info", <<cli.stations[1], cli.stations[2]>>, u, r)
           /\ cli' = CASE r.result.tag = "Ok" ->
                            CliReturn([c EXCEPT !.fetched = @ \o <<r.result.val>>,
                                                !.stdout = @ \o print_plan(r.result.val.value)])
                       [] r.result.tag = "Err" -> CliExit(c, ErrorDisplay(r.result.err), 1)
                       [] r.result.tag = "Panic" -> CliPanic(c, r.result.err)
  /\ UNCHANGED <<lazy, threads>>

\* Commands::Stations: format::print_stations
CliPrintStations ==
  /\ cli.pc = "print_stations"
  /\ LET stations == {s \in StationCode : s # UNKNOWN}
     IN  cli' = IF \A s \in stations : to_name(s).tag = "Ok"
                  THEN CliReturn([cli EXCEPT !.stdout = @ \o
                         << <<"WMATA Metrorail Stations">>,
                            <<"Code|Name">> \o
                              [i \in 1..(Len(StationCodeVariants) - 1) |->
                                 LET s == IF i < UNKNOWN THEN i ELSE i + 1
                                 IN  StationCodeDisplay(s) \o "|" \o to_name(s).val] >>])
                  ELSE CliPanic(cli, "called Option::unwrap() on a None value")
  /\ built' = built \cup {"STATION_CODE_TO_NAME"}
  /\ UNCHANGED <<client, last, sent>>
  /\ UNCHANGED <<lazy, threads>>

(***************************************************************************)
(* schemas.rs: the station directory used from several threads. Each table *)
(* is a lazy_static cell: the first dereference runs the initializer under *)
(* the Once of the cell, a dereference that finds the initializer running  *)
(* waits for it, and the HashMap is filled in a local of the initializer   *)
(* and stored in the cell when the initializer returns.                    *)
(***************************************************************************)
\* the names and codes the threads look up
ThreadNames == {"Metro Center", "GMU", "gmu"}
ThreadCodes == {SC("A01"), UNKNOWN}

\* the cell a directory call dereferences
CellOf(op) == IF op = "from_name" THEN "STATION_NAME_TO_CODE" ELSE "STATION_CODE_TO_NAME"

\* a thread can start a call: it is not inside one and has calls left
CanCall(t) ==
  /\ threads[t].pc \in {"idle", "returned"}
  /\ threads[t].calls < MaxCallsPerThread

\* thread t calls StationCode::from_name(s)
ThreadCallFromName ==
  /\ \E t \in Threads :
       /\ CanCall(t)
       /\ \E s \in ThreadNames :
            threads' = [threads EXCEPT ![t] =
                          [pc |-> "deref", op |-> "from_name", args |-> <<s>>,
                           result |-> Err(""), calls |-> threads[t].calls + 1]]
  /\ UNCHANGED <<client, built, last, sent, cli, lazy>>

\* thread t calls c.to_name()
ThreadCallToName ==
  /\ \E t \in Threads :
       /\ CanCall(t)
       /\ \E c \in ThreadCodes :
            threads' = [threads EXCEPT ![t] =
                          [pc |-> "deref", op |-> "to_name", args |-> <<c>>,
                           result |-> Err(""), calls |-> threads[t].calls + 1]]
  /\ UNCHANGED <<client, built, last, sent, cli, lazy>>

\* variant of ThreadDeref in which a thread that finds the initializer running goes
\* on to the lookup instead of waiting
ThreadDeref_NoWait ==
  /\ \E t \in Threads :
       /\ threads[t].pc = "deref"
       /\ LET cell == CellOf(threads[t].op)
          IN  IF lazy[cell].state = "incomplete"
                THEN /\ lazy' = [lazy EXCEPT ![cell] =
                                   [state |-> "running", inits |-> @.inits + 1, by |-> t]]
                     /\ threads' = [threads EXCEPT ![t].pc = "init"]
                ELSE /\ threads' = [threads EXCEPT ![t].pc = "lookup"]
                     /\ UNCHANGED lazy
  /\ UNCHANGED <<client, built, last, sent, cli>>

\* the dereference of the cell: Once::call_once. The first thread runs the
\* initializer, a thread that finds it running is blocked, later ones pass
ThreadDeref ==
  /\ \E t \in Threads :
       /\ threads[t].pc = "deref"
       /\ LET cell == CellOf(threads[t].op)
          IN  /\ lazy[cell].state # "running"
              /\ IF lazy[cell].state = "incomplete"
                    THEN /\ lazy' = [lazy EXCEPT ![cell] =
                                       [state |-> "running", inits |-> @.inits + 1, by |-> t]]
                         /\ threads' = [threads EXCEPT ![t].pc = "init"]
                    ELSE /\ threads' = [threads EXCEPT ![t].pc = "lookup"]
                         /\ UNCHANGED lazy
  /\ UNCHANGED <<client, built, last, sent, cli>>

\* the initializer returns its HashMap: the cell holds the table and the Once is complete
ThreadInit ==
  /\ \E t \in Threads :
       /\ threads[t].pc = "init"
       /\ LET cell == CellOf(threads[t].op)
          IN  /\ lazy' = [lazy EXCEPT ![cell].state = "complete"]
              /\ built' = built \cup {cell}
       /\ threads' = [threads EXCEPT ![t].pc = "lookup"]
  /\ UNCHANGED <<client, last, sent, cli>>

\* the get on the table of the cell and the match on what it found
ThreadLookup ==
  /\ \E t \in Threads :
       /\ threads[t].pc = "lookup"
       /\ threads' = [threads EXCEPT
                        ![t].pc = "returned",
                        ![t].result = IF threads[t].op = "from_name"
                                        THEN from_name(threads[t].args[1])
                                        ELSE to_name(threads[t].args[1])]
  /\ UNCHANGED <<client, built, last, sent, cli, lazy>>

\* a program whose threads use the directory; no client and no command line run
InitThreads ==
  /\ client = NoClient
  /\ built = {}
  /\ last = NoCall
  /\ sent = <<>>
  /\ cli = CliIdle
  /\ lazy = NoLazy
  /\ threads = NoThreads

NextThreads ==
  \/ ThreadCallFromName
  \/ ThreadCallToName
  \/ ThreadDeref
  \/ ThreadInit
  \/ ThreadLookup

SpecThreads == InitThreads /\ [][NextThreads]_vars

(***************************************************************************)
(* The specification: a library user calling into the crate, or one run of *)
(* the command line process.                                               *)
(***************************************************************************)
Init == InitLibrary \/ InitCli

Next ==
  \/ DropResult
  \/ FromStr
  \/ FromName
  \/ ToName
  \/ FromNameOfToName
  \/ EtaMinutes
  \/ DeserializeStation
  \/ DeserializeLine
  \/ GetSystemMetrics
  \/ GetTripInfo
  \/ GetTweets
  \/ GetTrainPositions
  \/ GetTrainReports
  \/ GetTrainReport
  \/ GetTrainPredictions
  \/ GetStationTrainPredictions
  \/ GetStationReports
  \/ GetStationReport
  \/ CliNewClient
  \/ CliParseStation
  \/ CliFetchPredictions
  \/ CliFetchReport
  \/ CliPrintDepartures
  \/ CliFetchTrip
  \/ CliPrintStations

Spec == Init /\ [][Next]_vars

(***************************************************************************)
(* Properties                                                              *)
(***************************************************************************)
GatewayOps ==
  {"get_system_metrics", "get_trip_info", "get_tweets", "get_train_positions",
   "get_train_reports", "get_train_report", "get_train_predictions",
   "get_station_train_predictions", "get_station_reports", "get_station_report"}

\* the latest call was a gateway call that the upstream answered with this status
Answered(status) ==
  /\ last.op \in GatewayOps
  /\ last.upstream.kind = "response"
  /\ last.upstream.status = status

\* the type parameter T of send_request in each operation (its return type)
TargetOf(op) ==
  CASE op = "get_system_metrics" -> "SystemMetricsResponse"
    [] op = "get_trip_info" -> "TripInfo"
    [] op = "get_tweets" -> "Vec<Tweet>"
    [] op = "get_train_positions" -> "Vec<TrainPrediction>"
    [] op = "get_train_reports" -> "TrainReports"
    [] op = "get_train_report" -> "TrainTags"
    [] op = "get_train_predictions" -> "TrainPredictions"
    [] op = "get_station_train_predictions" -> "Vec<TrainPrediction>"
    [] op = "get_station_reports" -> "StationReports"
    [] op = "get_station_report" -> "StationTags"

\* s is the string form of a code or a key of the alias/name table
IsKnownString(s) ==
  \/ \E c \in StationCode : StationCodeDisplay(c) = s
  \/ s \in DOMAIN STATION_NAME_TO_CODE

\* C1: a station argument that is the string form of a code c (UNKNOWN included) is
\* resolved by parse_user_station_input to exactly c; the process does not exit on it.
C1_CodeInputResolvesToItself ==
  \A i \in DOMAIN cli.inputs : \A c \in StationCode :
    (cli.inputs[i] = StationCodeDisplay(c) /\ cli.parsed >= i)
      => (Len(cli.stations) >= i /\ cli.stations[i] = c)

C1_Witness ==
  /\ cli.inputs = <<"UNKNOWN">>
  /\ cli.parsed = 1
  /\ cli.stations = <<UNKNOWN>>

\* C2: for a string that is neither the string form of a code nor a key of the name
\* table, from_name returns Err(InvalidStation), and parse_user_station_input prints
\* the InvalidStation message and exits with status 1 without returning an identifier.
C2_UnknownStringIsInvalidStation ==
  /\ (last.op = "from_name" /\ ~IsKnownString(last.args[1]))
       => (last.result.tag = "Err" /\ last.result.err = "InvalidStation")
  /\ \A i \in DOMAIN cli.inputs :
       (~IsKnownString(cli.inputs[i]) /\ cli.parsed >= i)
         => /\ cli.pc = "exited"
            /\ cli.exit = 1
            /\ Len(cli.stations) = i - 1
            /\ cli.stderr = <<ErrorDisplay("InvalidStation")>>
            /\ cli.requests = <<>>
            /\ cli.stdout = <<>>

C2_Witness ==
  /\ cli.inputs = <<" K03">>
  /\ cli.parsed = 1
  /\ cli.pc = "exited"
  /\ cli.exit = 1

\* C3: when the input matches the code enumeration, parse_user_station_input returns
\* the identifier of the code match through the code branch, also when the name table
\* has the input as a key; the name branch is taken only when the code match failed.
C3_CodeMatchHasPriority ==
  \A i \in 1..Len(cli.stations) :
    LET code_attempt == StationCodeFromStr(cli.inputs[i])
        name_attempt == from_name(cli.inputs[i])
    IN  /\ code_attempt.tag = "Ok"
             => (cli.via[i] = "code" /\ cli.stations[i] = code_attempt.val)
        /\ cli.via[i] = "name"
             => /\ code_attempt.tag = "Err"
                /\ name_attempt.tag = "Ok"
                /\ cli.stations[i] = name_attempt.val

C3_Witness ==
  /\ cli.inputs = <<"UNKNOWN">>
  /\ StationCodeFromStr("UNKNOWN").tag = "Ok"
  /\ from_name("UNKNOWN").tag = "Ok"
  /\ cli.stations = <<UNKNOWN>>
  /\ cli.via = <<"code">>

\* C4: to_name returns a name for every variant of StationCode and never panics; for
\* the sentinel UNKNOWN the name is "UNKNOWN".
C4_ToNameIsTotal ==
  /\ last.op = "to_name"
       => /\ last.result.tag = "Ok"
          /\ last.args[1] = UNKNOWN => last.result.val = "UNKNOWN"
  /\ \A i \in DOMAIN cli.stderr :
       cli.stderr[i] # "thread 'main' panicked: called Option::unwrap() on a None value"

C4_Witness ==
  /\ last.op = "to_name"
  /\ last.args = <<UNKNOWN>>
  /\ last.result.tag = "Ok"
  /\ last.result.val = "UNKNOWN"

\* the reachability invariant of the two tables as they are finally built
DirectoryReachable ==
  /\ \A c \in (DOMAIN STATION_CODE_TO_NAME) \ {UNKNOWN} :
       \E k \in DOMAIN STATION_NAME_TO_CODE : STATION_NAME_TO_CODE[k] = c
  /\ \A k \in DOMAIN STATION_NAME_TO_CODE :
       STATION_NAME_TO_CODE[k] \in DOMAIN STATION_CODE_TO_NAME
  /\ {k \in DOMAIN STATION_NAME_TO_CODE : STATION_NAME_TO_CODE[k] = UNKNOWN} = {"UNKNOWN"}

\* C5: once the name-to-code table is built, every non-sentinel code of the
\* code-to-name table is the value of at least one of its entries, every value of it
\* is a key of the code-to-name table, and UNKNOWN is the value of the key "UNKNOWN" only.
C5_DirectoryReachable ==
  "STATION_NAME_TO_CODE" \in built => DirectoryReachable

\* C6: a 400 answer to get_trip_info is returned as InvalidItinerary.
C6_TripInfo400IsInvalidItinerary ==
  (last.op = "get_trip_info" /\ Answered(400))
    => (last.result.tag = "Err" /\ last.result.err = "InvalidItinerary")

C6_Witness ==
  /\ last.op = "get_trip_info"
  /\ last.args = <<UNKNOWN, UNKNOWN>>
  /\ Answered(400)
  /\ last.result.err = "InvalidItinerary"

\* C7: a 400 answer to get_station_train_predictions or to get_station_report is
\* returned as InvalidStation.
C7_Station400IsInvalidStation ==
  (last.op \in {"get_station_train_predictions", "get_station_report"} /\ Answered(400))
    => (last.result.tag = "Err" /\ last.result.err = "InvalidStation")

C7_Witness ==
  /\ last.op = "get_station_report"
  /\ last.args = <<UNKNOWN>>
  /\ Answered(400)
  /\ last.result.err = "InvalidStation"

\* C8: a 400 answer to get_train_report is returned as InvalidTrainId.
C8_TrainReport400IsInvalidTrainId ==
  (last.op = "get_train_report" /\ Answered(400))
    => (last.result.tag = "Err" /\ last.result.err = "InvalidTrainId")

C8_Witness ==
  /\ last.op = "get_train_report"
  /\ last.args = <<"123">>
  /\ Answered(400)
  /\ last.result.err = "InvalidTrainId"

\* C9: for each of the ten gateway operations a 401 answer is returned as
\* AuthenticationError and a 503 answer as RateLimited.
C9_AuthAndRateLimitOnEveryEndpoint ==
  /\ Answered(401) => (last.result.tag = "Err" /\ last.result.err = "AuthenticationError")
  /\ Answered(503) => (last.result.tag = "Err" /\ last.result.err = "RateLimited")

C9_Witness ==
  /\ last.op = "get_trip_info"
  /\ Answered(503)
  /\ last.result.err = "RateLimited"

\* C10: an answer with a status other than 200, 400, 401 and 503 aborts the call:
\* the operation returns neither an Ok value nor a MetroHeroError.
C10_UnexpectedStatusAborts ==
  (last.op \in GatewayOps /\ last.upstream.kind = "response"
     /\ last.upstream.status \notin {200, 400, 401, 503})
    => last.result.tag = "Panic"

C10_Witness ==
  /\ last.op = "get_station_train_predictions"
  /\ Answered(404)
  /\ last.result.tag = "Panic"

\* C11: for each of the ten gateway operations, a 200 answer whose body does not
\* deserialize into the operation's return type is returned as ParseError, also by the
\* four operations that remap InvalidRequest, and a 200 answer whose body does
\* deserialize is returned as Ok.
C11_ParseErrorOn200 ==
  Answered(200) =>
    IF Deserializes(last.upstream.body, TargetOf(last.op))
      THEN last.result.tag = "Ok"
      ELSE last.result.tag = "Err" /\ last.result.err = "ParseError"

C11_Witness ==
  /\ last.op = "get_trip_info"
  /\ Answered(200)
  /\ last.upstream.body.shape = "not json"
  /\ last.result.tag = "Err"
  /\ last.result.err = "ParseError"

\* C12: for each of the ten gateway operations, an exchange that fails before any
\* response is obtained is returned as HttpError, also by the four operations that
\* remap InvalidRequest.
C12_TransportFailureIsHttpError ==
  (last.op \in GatewayOps /\ last.upstream.kind = "transport_error")
    => (last.result.tag = "Err" /\ last.result.err = "HttpError")

C12_Witness ==
  /\ last.op = "get_station_report"
  /\ last.upstream.kind = "transport_error"
  /\ last.result.tag = "Err"
  /\ last.result.err = "HttpError"

\* what an operation returns for its arguments and the outcome of its exchange
ResultOf(self, op, args, upstream) ==
  CASE op = "get_system_metrics" -> get_system_metrics(self, upstream).result
    [] op = "get_trip_info" -> get_trip_info(self, args[1], args[2], upstream).result
    [] op = "get_tweets" -> get_tweets(self, upstream).result
    [] op = "get_train_positions" -> get_train_positions(self, upstream).result
    [] op = "get_train_reports" -> get_train_reports(self, upstream).result
    [] op = "get_train_report" -> get_train_report(self, args[1], upstream).result
    [] op = "get_train_predictions" -> get_train_predictions(self, upstream).result
    [] op = "get_station_train_predictions" ->
         get_station_train_predictions(self, args[1], upstream).result
    [] op = "get_station_reports" -> get_station_reports(self, upstream).result
    [] op = "get_station_report" -> get_station_report(self, args[1], upstream).result

\* the exchange of the latest call ended in one of the failures of the status table
FailedExchange ==
  /\ last.op \in GatewayOps
  /\ \/ last.upstream.kind = "transport_error"
     \/ Answered(400) \/ Answered(401) \/ Answered(503)
     \/ Answered(200) /\ ~Deserializes(last.upstream.body, TargetOf(last.op))

\* C13: every call of a gateway operation issues exactly one GET; after a 503, a
\* transport failure, a 400, a 401 or a parse failure the call returns the error with
\* that one GET, and a command line run that gets the error sends nothing after it.
C13_OneRequestPerCall ==
  /\ last.op \in GatewayOps => Len(sent) = 1
  /\ FailedExchange => last.result.tag = "Err"
  /\ (cli.pc # "idle" /\ last.op \in GatewayOps)
       => /\ Len(cli.requests) = (IF last.prior.op = "none" THEN 1 ELSE 2)
          /\ cli.requests[Len(cli.requests)] = sent[1]
          /\ last.result.tag # "Ok" => cli.pc = "exited"

C13_Witness ==
  /\ last.op = "get_station_train_predictions"
  /\ Answered(503)
  /\ last.result.tag = "Err"
  /\ Len(sent) = 1
  /\ cli.pc = "exited"
  /\ Len(cli.requests) = 1

\* C14: a gateway call leaves the fields of the client as they were, and what it
\* returns is determined by its operation, its arguments and the outcome of its own
\* exchange, whatever the call before it was and returned: the same call made again
\* after a success returns the error of its own exchange.
C14_CallsAreIndependent ==
  [][last'.op \in GatewayOps
       => /\ client' = client
          /\ last'.result = ResultOf(client, last'.op, last'.args, last'.upstream)]_vars

C14_Witness ==
  /\ last.op = "get_station_report"
  /\ last.prior.op = last.op
  /\ last.prior.args = last.args
  /\ last.prior.result.tag = "Ok"
  /\ last.result.tag = "Err"
  /\ last.result.err = "RateLimited"
  /\ client = MetroHeroClientNew("YOUR_API_KEY")

\* C15: on a 200 answer that deserializes, get_station_train_predictions returns a
\* list with as many elements as the array of the answer, in the order of the array.
C15_PredictionsKeepUpstreamOrder ==
  (last.op = "get_station_train_predictions" /\ Answered(200) /\ last.result.tag = "Ok")
    => /\ Len(last.result.val.value) = Len(last.upstream.body.value)
       /\ \A i \in DOMAIN last.upstream.body.value :
            last.result.val.value[i] = last.upstream.body.value[i]

C15_Witness ==
  /\ last.op = "get_station_train_predictions"
  /\ Answered(200)
  /\ last.upstream.body.value = <<"8", "ARR", "3">>
  /\ last.result.tag = "Ok"
  /\ last.result.val.value = <<"8", "ARR", "3">>

\* C16: in the commands Departures and Plan a domain error of any step (resolving a
\* station, fetching the predictions, fetching the station report, fetching the trip)
\* ends the run with a non-zero exit status and with the fixed Display message of that
\* error, and nothing else, on stderr.
C16_DomainErrorPrintsDisplayMessage ==
  /\ cli.parsed > Len(cli.stations)
       => /\ cli.pc = "exited"
          /\ cli.exit \notin {0, -1}
          /\ cli.stderr = <<ErrorDisplay("InvalidStation")>>
  /\ (cli.pc # "idle" /\ last.op \in GatewayOps /\ last.result.tag = "Err")
       => /\ cli.pc = "exited"
          /\ cli.exit \notin {0, -1}
          /\ cli.stderr = <<ErrorDisplay(last.result.err)>>

\* C17: in the commands Departures and Plan nothing is on stdout when a fetch of the
\* command has failed, and when something is on stdout all fetches of the command
\* (two for Departures, one for Plan) have been made and have succeeded.
C17_NoOutputBeforeAllFetches ==
  /\ (cli.pc # "idle" /\ last.op \in GatewayOps /\ last.result.tag # "Ok")
       => cli.stdout = <<>>
  /\ (cli.command \in {"departures", "plan"} /\ cli.stdout # <<>>)
       => /\ Len(cli.fetched) = (IF cli.command = "departures" THEN 2 ELSE 1)
          /\ Len(cli.requests) = Len(cli.fetched)
          /\ last.result.tag = "Ok"

C17_Witness ==
  /\ cli.command = "departures"
  /\ Len(cli.requests) = 2
  /\ last.op = "get_station_report"
  /\ last.result.tag = "Err"
  /\ cli.pc = "exited"
  /\ cli.stdout = <<>>

\* C18: in a command line run a request has been sent only when every station argument
\* of the command has been resolved (both of them in Plan, before get_trip_info), and
\* a run with an argument that does not resolve sends no request at all.
C18_ResolutionBeforeRequests ==
  /\ cli.requests # <<>>
       => /\ cli.parsed = Len(cli.inputs)
          /\ Len(cli.stations) = Len(cli.inputs)
  /\ (\E i \in DOMAIN cli.inputs : ~IsKnownString(cli.inputs[i]))
       => /\ cli.requests = <<>>
          /\ sent = <<>>
  /\ cli.parsed > Len(cli.stations) => cli.pc = "exited"

C18_Witness ==
  /\ cli.command = "plan"
  /\ cli.inputs = <<"GMU", "gmu">>
  /\ cli.parsed = 2
  /\ cli.stations = <<SC("K03")>>
  /\ cli.pc = "exited"
  /\ cli.requests = <<>>

\* t is a minute count: a non-empty string of decimal digits
IsMinuteCount(t) ==
  /\ Len(t) > 0
  /\ \A i \in 1..Len(t) :
       SubSeq(t, i, i) \in {"0", "1", "2", "3", "4", "5", "6", "7", "8", "9"}

\* C19: eta_minutes returns the token followed by "m" when the token is a minute
\* count, and the token itself, with no "m" after it, when it is "ARR" or "BRD".
C19_EtaMinutesFormat ==
  last.op = "eta_minutes"
    => /\ IsMinuteCount(last.args[1]) => last.result.val = last.args[1] \o "m"
       /\ last.args[1] \in {"ARR", "BRD"} => last.result.val = last.args[1]

C19_Witness ==
  /\ last.op = "eta_minutes"
  /\ last.args = <<"BRD">>
  /\ last.result.val = "BRD"

\* C20: a station argument that is a key of the name-to-code table resolves, and to the
\* identifier that parse_user_station_input returns for the string form of the code
\* the table has for it; "GMU" resolves to K03, named Virginia Square-GMU, and
\* "Ballston" to K04.
C20_AliasResolvesAsItsCode ==
  \A i \in DOMAIN cli.inputs :
    (cli.inputs[i] \in DOMAIN STATION_NAME_TO_CODE /\ cli.parsed >= i)
      => LET code == STATION_NAME_TO_CODE[cli.inputs[i]]
             by_code == parse_user_station_input(StationCodeDisplay(code))
         IN  /\ Len(cli.stations) >= i
             /\ by_code.tag = "return"
             /\ cli.stations[i] = by_code.code
             /\ cli.inputs[i] = "GMU"
                  => /\ cli.stations[i] = SC("K03")
                     /\ to_name(cli.stations[i]) = Ok("Virginia Square-GMU")
             /\ cli.inputs[i] = "Ballston" => cli.stations[i] = SC("K04")

C20_Witness ==
  /\ cli.inputs = <<"GMU">>
  /\ cli.parsed = 1
  /\ cli.via = <<"name">>
  /\ cli.stations = <<SC("K03")>>

\* C21: with several threads calling from_name and to_name in any interleaving, the
\* initializer of each table runs at most once, a thread reaches its lookup only when
\* the table of its call is completely built, and every call returns what the same
\* call returns when it is made alone.
C21_DirectoryBuiltOnceAndReadOnly ==
  /\ \A c \in Cells :
       /\ lazy[c].inits <= 1
       /\ lazy[c].state = "complete" <=> c \in built
  /\ \A t \in Threads :
       /\ threads[t].pc = "lookup" => lazy[CellOf(threads[t].op)].state = "complete"
       /\ threads[t].pc = "returned"
            => /\ lazy[CellOf(threads[t].op)].state = "complete"
               /\ threads[t].result = IF threads[t].op = "from_name"
                                        THEN from_name(threads[t].args[1])
                                        ELSE to_name(threads[t].args[1])

\* two threads raced on the first access of the name table; thread 2 ran the initializer
C21_Witness ==
  /\ lazy["STATION_NAME_TO_CODE"].by = 2
  /\ lazy["STATION_NAME_TO_CODE"].inits = 1
  /\ threads[1].calls = 1
  /\ threads[1].op = "from_name"
  /\ threads[1].pc = "returned"
  /\ threads[1].result = from_name("Metro Center")
  /\ threads[2].calls = 1
  /\ threads[2].op = "from_name"
  /\ threads[2].pc = "returned"

\* the trip-info endpoint answered 400 to a request that embeds an identifier that is
\* no station, the sentinel UNKNOWN
TripInfo400ForUnknownStation ==
  /\ last.op = "get_trip_info"
  /\ Answered(400)
  /\ UNKNOWN \in {last.args[1], last.args[2]}

\* C22 (as stated): a 400 from the trip-info endpoint for a request with an invalid
\* station identifier is returned as InvalidStation.
C22_TripInfo400ForInvalidStationIsInvalidStation ==
  TripInfo400ForUnknownStation
    => (last.result.tag = "Err" /\ last.result.err = "InvalidStation")

\* C22 (amended): a 400 from the trip-info endpoint is returned as InvalidItinerary
\* also when the request embeds an invalid station identifier; get_trip_info never
\* returns InvalidStation.
C22_TripInfo400ForInvalidStationIsInvalidItinerary ==
  /\ TripInfo400ForUnknownStation
       => (last.result.tag = "Err" /\ last.result.err = "InvalidItinerary")
  /\ last.op = "get_trip_info"
       => ~(last.result.tag = "Err" /\ last.result.err = "InvalidStation")

C22_Witness ==
  /\ last.op = "get_trip_info"
  /\ last.args = <<UNKNOWN, SC("K03")>>
  /\ Answered(400)
  /\ last.result.tag = "Err"
  /\ last.result.err = "InvalidItinerary"

\* C23: for a name that the source inserts into the name-to-code table more than once,
\* from_name returns the code of the last of these inserts: C01 for "Metro Center", E06
\* for "Fort Totten", F01 for "Gallery Pl-Chinatown", "Chinatown" and "Gallery Pl", F03
\* for "L'Enfant Plaza"; it never returns A01, B06, B01 or D03.
C23_LaterInsertionWins ==
  last.op = "from_name"
    => LET name == last.args[1]
           inserts == {i \in DOMAIN NAME_TO_CODE_INSERTS : NAME_TO_CODE_INSERTS[i][1] = name}
       IN  /\ \A i \in inserts :
                (\A j \in inserts : j <= i)
                  => last.result = Ok(SC(NAME_TO_CODE_INSERTS[i][2]))
           /\ name = "Metro Center" => last.result = Ok(SC("C01"))
           /\ name = "Fort Totten" => last.result = Ok(SC("E06"))
           /\ name \in {"Gallery Pl-Chinatown", "Chinatown", "Gallery Pl"}
                => last.result = Ok(SC("F01"))
           /\ name = "L'Enfant Plaza" => last.result = Ok(SC("F03"))
           /\ last.result.tag = "Ok"
                => last.result.val \notin {SC("A01"), SC("B06"), SC("B01"), SC("D03")}

C23_Witness ==
  /\ last.op = "from_name"
  /\ last.args = <<"Metro Center">>
  /\ Cardinality({i \in DOMAIN NAME_TO_CODE_INSERTS :
                    NAME_TO_CODE_INSERTS[i][1] = "Metro Center"}) = 2
  /\ last.result = Ok(SC("C01"))

\* the argument of the latest from_name or from_str call is accepted by both lookups
AcceptedByBoth ==
  /\ last.op \in {"from_name", "from_str"}
  /\ StationCodeFromStr(last.args[1]).tag = "Ok"
  /\ from_name(last.args[1]).tag = "Ok"

\* C24 (as stated): no string is accepted both by StationCode::from_str and by
\* StationCode::from_name.
C24_CodesAndNamesDisjoint ==
  ~AcceptedByBoth

\* C24 (amended): the one string accepted both by from_str and by from_name is
\* "UNKNOWN", and both return the sentinel UNKNOWN for it.
C24_OnlyUnknownIsCodeAndName ==
  AcceptedByBoth
    => /\ last.args[1] = "UNKNOWN"
       /\ last.result = Ok(UNKNOWN)
       /\ StationCodeFromStr(last.args[1]) = from_name(last.args[1])

C24_Witness ==
  /\ last.op = "from_name"
  /\ last.args = <<"UNKNOWN">>
  /\ last.result = Ok(UNKNOWN)
  /\ StationCodeFromStr("UNKNOWN") = Ok(UNKNOWN)

\* C25: a 400 answer to one of the six operations without a remap (get_system_metrics,
\* get_tweets, get_train_positions, get_train_reports, get_train_predictions,
\* get_station_reports) is returned as InvalidRequest, and these operations return
\* none of InvalidStation, InvalidTrainId and InvalidItinerary.
C25_Generic400IsInvalidRequest ==
  last.op \in {"get_system_metrics", "get_tweets", "get_train_positions",
               "get_train_reports", "get_train_predictions", "get_station_reports"}
    => /\ Answered(400) => (last.result.tag = "Err" /\ last.result.err = "InvalidRequest")
       /\ last.result.tag = "Err"
            => last.result.err \notin {"InvalidStation", "InvalidTrainId", "InvalidItinerary"}

C25_Witness ==
  /\ last.op = "get_station_reports"
  /\ Answered(400)
  /\ last.result.tag = "Err"
  /\ last.result.err = "InvalidRequest"

\* C26: the Deserialize of StationCode returns, for a string that is the name of a
\* variant, that variant, and UNKNOWN for every other string; the Deserialize of
\* LineCode returns the line of "SV", "RD", "OR", "BL", "YL" and "GR", and NonRevenue
\* for every other string; neither fails, and a TripInfo answer with codes outside
\* the enumerations is returned as Ok with UNKNOWN and NonRevenue in their place.
C26_UnrecognizedCodesDeserialize ==
  /\ last.op = "deserialize_station_code"
       => /\ last.result.tag = "Ok"
          /\ \A c \in StationCode :
               StationCodeDisplay(c) = last.args[1] => last.result.val = c
          /\ (\A c \in StationCode : StationCodeDisplay(c) # last.args[1])
               => last.result.val = UNKNOWN
  /\ last.op = "deserialize_line_code"
       => /\ last.result.tag = "Ok"
          /\ last.result.val =
               CASE last.args[1] = "SV" -> "Silver"
                 [] last.args[1] = "RD" -> "Red"
                 [] last.args[1] = "OR" -> "Orange"
                 [] last.args[1] = "BL" -> "Blue"
                 [] last.args[1] = "YL" -> "Yellow"
                 [] last.args[1] = "GR" -> "Green"
                 [] OTHER -> "NonRevenue"
  /\ (last.op = "get_trip_info" /\ Answered(200) /\ last.upstream.body.shape = "TripInfo")
       => /\ last.result.tag = "Ok"
          /\ last.upstream.body.value.from_station_code = "Z99"
               => /\ last.result.val.value.from_station_code = UNKNOWN
                  /\ last.result.val.value.line_codes = <<"NonRevenue", "Blue">>
          /\ last.upstream.body.value.from_station_code = "K03"
               => /\ last.result.val.value.from_station_code = SC("K03")
                  /\ last.result.val.value.line_codes = <<"Orange", "Silver">>

C26_Witness ==
  /\ last.op = "get_trip_info"
  /\ Answered(200)
  /\ last.upstream.body.shape = "TripInfo"
  /\ last.upstream.body.value.from_station_code = "Z99"
  /\ last.result.tag = "Ok"
  /\ last.result.val.value.from_station_code = UNKNOWN

\* C27: the one GET of a gateway call goes to the base URL of the client followed by
\* the path of the operation: /metrorail/trips/<from>/<to> with the origin first,
\* /metrorail/stations/<s>/trains?includeScheduledPredictions=true,
\* /metrorail/stations/<s>/tags, /metrorail/trains/<id>/tags, and the fixed paths of
\* the six operations without arguments.
C27_RequestPaths ==
  last.op \in GatewayOps
    => sent = << client.api_url_base \o
         CASE last.op = "get_trip_info" ->
                "/metrorail/trips/" \o StationCodeVariants[last.args[1]] \o "/"
                  \o StationCodeVariants[last.args[2]]
           [] last.op = "get_station_train_predictions" ->
                "/metrorail/stations/" \o StationCodeVariants[last.args[1]]
                  \o "/trains?includeScheduledPredictions=true"
           [] last.op = "get_station_report" ->
                "/metrorail/stations/" \o StationCodeVariants[last.args[1]] \o "/tags"
           [] last.op = "get_train_report" ->
                "/metrorail/trains/" \o last.args[1] \o "/tags"
           [] last.op = "get_system_metrics" -> "/metrorail/metrics"
           [] last.op = "get_tweets" -> "/metrorail/tweets"
           [] last.op = "get_train_positions" -> "/metrorail/trains"
           [] last.op = "get_train_reports" -> "/metrorail/trains/tags"
           [] last.op = "get_train_predictions" -> "/metrorail/stations/trains"
           [] last.op = "get_station_reports" -> "/metrorail/stations/tags" >>

C27_Witness ==
  /\ last.op = "get_trip_info"
  /\ last.args = <<SC("K03"), SC("C02")>>
  /\ sent = <<"https://dcmetrohero.com/api/v1/metrorail/trips/K03/C02">>

\* C28: the departures table printed by the Departures command for n fetched
\* predictions has the header and min(n, 3) rows, row i made from the i-th prediction;
\* for an empty list it is the header alone and the run ends with status 0.
C28_DeparturesTableRows ==
  (cli.command = "departures" /\ cli.stdout # <<>>)
    => LET departures == cli.fetched[1].value
           table == cli.stdout[2]
           n == Len(departures)
           rows == IF n < 3 THEN n ELSE 3
       IN  /\ Len(table) = 1 + rows
           /\ table[1] = "Line|Destination|ETA|Notes"
           /\ \A i \in 1..rows : table[i + 1] = "ETA " \o eta_minutes(departures[i])
           /\ cli.exit = 0

C28_Witness ==
  /\ cli.command = "departures"
  /\ cli.pc = "exited"
  /\ Len(cli.fetched) = 2
  /\ cli.fetched[1].value = <<"BRD", "2", "5", "12">>
  /\ cli.stdout[2] = <<"Line|Destination|ETA|Notes", "ETA BRD", "ETA 2m", "ETA 5m">>

\* C29: in the Departures command the first request is the one for the predictions of
\* the station and the second, if there is one, the one for its report; the second is
\* sent only after the predictions were fetched, and a run whose prediction fetch
\* failed has ended with that one request.
C29_PredictionsBeforeReport ==
  cli.command = "departures"
    => /\ Len(cli.requests) <= 2
       /\ Len(cli.requests) >= 1
            => cli.requests[1] = client.api_url_base \o "/metrorail/stations/"
                 \o StationCodeVariants[cli.stations[1]]
                 \o "/trains?includeScheduledPredictions=true"
       /\ Len(cli.requests) = 2
            => /\ cli.requests[2] = client.api_url_base \o "/metrorail/stations/"
                    \o StationCodeVariants[cli.stations[1]] \o "/tags"
               /\ Len(cli.fetched) >= 1
               /\ last.prior.op = "get_station_train_predictions"
               /\ last.prior.result.tag = "Ok"
       /\ (last.op = "get_station_train_predictions" /\ last.result.tag # "Ok")
            => /\ cli.pc = "exited"
               /\ Len(cli.requests) = 1

C29_Witness ==
  /\ cli.command = "departures"
  /\ last.op = "get_station_train_predictions"
  /\ last.result.tag = "Err"
  /\ last.result.err = "InvalidStation"
  /\ cli.pc = "exited"
  /\ Len(cli.requests) = 1

\* C30: from_name applied to the name that to_name returned for a station code succeeds,
\* and the code it returns has that same name, whether or not it is the code the name
\* came from.
C30_DisplayNameRoundTrip ==
  (last.op = "from_name" /\ last.prior.op = "to_name")
    => /\ last.args = <<last.prior.result.val>>
       /\ last.result.tag = "Ok"
       /\ to_name(last.result.val) = last.prior.result

C30_Witness ==
  /\ last.op = "from_name"
  /\ last.prior.op = "to_name"
  /\ last.prior.args = <<SC("A01")>>
  /\ last.args = <<"Metro Center">>
  /\ last.result = Ok(SC("C01"))

====
